---- MODULE Spec2Model ----
(***************************************************************************)
(* The Ethereum Environment Interface of ewasm-kernel (src/EVMimports.js): *)
(* the host functions a WebAssembly contract calls, their gas accounting,  *)
(* the module's linear memory, the calling account's storage and the       *)
(* kernel's queue of asynchronous operations.                              *)
(***************************************************************************)
EXTENDS Integers, Sequences, FiniteSets, TLC

(* ------------------------------ bounds -------------------------------- *)

\* Host calls one run of the module issues.
MaxOps == 2
\* Width of one half of a 64-bit quantity (32 in the program): 2^HalfBits
\* stands for 4294967296.
HalfBits == 10
\* Operations pushed in the queue-only specification.
MaxPush == 4

(* -------------------------- program constants ------------------------- *)

U128_SIZE_BYTES == 16
ADDRESS_SIZE_BYTES == 20
U256_SIZE_BYTES == 32

\* 4294967296 = 0x100000000, at the model's width.
Two32 == 2^HalfBits

\* environment.block.number of the run.
BlockNumber == 300

VARIABLES
    gasLeft,      \* environment.gasLeft
    gasRefund,    \* environment.gasRefund
    logs,         \* environment.logs
    storage,      \* environment.state[contextAccount]['storage']: keyHex -> valueHex
    memory,       \* kernel.memory, the module's linear memory (bytes)
    opsQueue,     \* the kernel's queue of pending operations, oldest first
    callbacks,    \* the module callbacks the queue has invoked, in order
    chainQueries, \* the heights environment.blockchain was asked for
    pc,           \* position of the host call in progress ("idle": none)
    frame,        \* the host call in progress, or the last one: name and arguments
    err,          \* the error that ended the run ("none": still running)
    nOps,         \* host calls issued so far
    returnValue,  \* environment.returnValue
    selfDestruct, \* environment.selfDestruct
    selfDestructAddress, \* environment.selfDestructAddress
    balances      \* environment.state[address].balance: address hex -> balance hex

vars == <<gasLeft, gasRefund, logs, storage, memory, opsQueue, callbacks,
          chainQueries, pc, frame, err, nOps, returnValue, selfDestruct,
          selfDestructAddress, balances>>

\* What the host calls of the storage, gas, log and call families leave alone.
outputs == <<returnValue, selfDestruct, selfDestructAddress, balances>>

(* ------------------------------ helpers ------------------------------- *)

RECURSIVE Reverse(_)
\* Uint8Array.prototype.reverse
Reverse(s) == IF s = <<>> THEN <<>> ELSE Append(Reverse(Tail(s)), Head(s))

Zeros(n) == [i \in 1..n |-> 0]

\* A wasm i32 as JavaScript receives it: a signed number.
ToInt32(x) == IF x >= Two32 \div 2 THEN x - Two32 ELSE x

\* new Uint8Array(this.kernel.memory, offset, length): offsets count from 0.
getMemory(mem, offset, length) == SubSeq(mem, offset + 1, offset + length)

\* memory.set(value) on the window at offset.
setMemory(mem, offset, value) ==
    [i \in 1..Len(mem) |->
        IF i > offset /\ i <= offset + Len(value) THEN value[i - offset] ELSE mem[i]]

(* U256 (deps/u256.js): a number kept as its hex digits, most significant  *)
(* first, without leading zeros (zero: no digit).                          *)

RECURSIVE StripZeros(_)
StripZeros(d) == IF d = <<>> THEN <<>>
                 ELSE IF Head(d) = 0 THEN StripZeros(Tail(d)) ELSE d

\* Two hex digits per byte, the bytes most significant first.
BytesToDigits(b) ==
    [i \in 1..(2 * Len(b)) |->
        IF i % 2 = 1 THEN b[(i + 1) \div 2] \div 16 ELSE b[i \div 2] % 16]

DigitsToBytes(d) == [i \in 1..(Len(d) \div 2) |-> d[2 * i - 1] * 16 + d[2 * i]]

PadLeft(d, n) == Zeros(n - Len(d)) \o d

\* U256.fromMemory(bytes): the bytes are little-endian.
U256_fromMemory(bytes) == StripZeros(BytesToDigits(Reverse(bytes)))

\* u.toMemory(width): little-endian bytes, `width` of them.
U256_toMemory(u, width) == Reverse(DigitsToBytes(PadLeft(u, 2 * width)))

\* u.toString(16): '0x' and the digits, "0" for zero.
U256_toString(u) == IF u = <<>> THEN <<0>> ELSE u

\* new U256(hexString)
U256_new(str) == StripZeros(str)

U256_isZero(u) == u = <<>>

\* What `storage[keyHex]` gives for an absent key.
Undefined == << -1 >>

(* ------------------------------- gas ---------------------------------- *)

\* takeGas refusing an amount equal to what is left.
takeGasOffByOne(g, amount) ==
    IF g <= amount
    THEN [gasLeft |-> g, err |-> "Ran out of gas"]
    ELSE [gasLeft |-> g - amount, err |-> "none"]

\* takeGas without its check.
takeGasUnchecked(g, amount) == [gasLeft |-> g - amount, err |-> "none"]

\* takeGas(amount) on a tank holding g: the new tank and whether it threw.
takeGas(g, amount) ==
    IF g < amount
    THEN [gasLeft |-> g, err |-> "Ran out of gas"]
    ELSE [gasLeft |-> g - amount, err |-> "none"]

\* from64bit(high, low)
from64bit(high, low) ==
    LET h == IF high < 0 THEN Two32 - high ELSE high
        l == IF low < 0 THEN Two32 - low ELSE low
    IN (h * Two32) + l

(* --------------------------- initial state ---------------------------- *)

\* The module's data segment: a nonzero word at 0, a zero word at 32, a
\* second nonzero word at 64 and a zeroed result area at 96.
WordA == <<1, 2>> \o Zeros(30)
WordB == <<3>> \o Zeros(30) \o <<7>>
InitMemory == WordA \o Zeros(32) \o WordB \o Zeros(32)

\* The account's storage as the test runner sets it: {}.
EmptyStorage == [k \in {} |-> <<>>]

\* A byte buffer the environment holds: either bytes of its own or a window
\* on the module's memory (new Uint8Array(this.kernel.memory, offset, length)).
Copied(bytes) == [view |-> FALSE, offset |-> 0, length |-> Len(bytes), bytes |-> bytes]
View(offset, length) == [view |-> TRUE, offset |-> offset, length |-> length, bytes |-> <<>>]

\* The bytes read through such a buffer when the memory is mem.
BytesOf(buf, mem) ==
    IF buf.view THEN getMemory(mem, buf.offset, buf.length) ELSE buf.bytes

\* '0x' + Buffer.from(address).toString('hex'): two digits per byte, in order.
AddressHex(address) == BytesToDigits(address)

\* The balance of the fixture's account, 0xde0b6b3a7640000.
OneEther == <<13, 14, 0, 11, 6, 11, 3, 10, 7, 6, 4, 0, 0, 0, 0>>

\* environment.state of the run: one account, at the address the module's
\* data segment starts with.
InitBalances ==
    [a \in {AddressHex(SubSeq(WordA, 1, ADDRESS_SIZE_BYTES))} |-> OneEther]

\* Gas the environment record is built with: the default and some overrides.
InitGas == {1000000, 20100, 6745, 400, 1}

\* The result of a callback that returns nothing.
NoResult == 0 - 1

\* A host call: its name, its arguments, the gas at its entry and what it
\* returned to the module.
Frame(op, args, high, low, gas) ==
    [op |-> op, args |-> args, high |-> high, low |-> low, gas |-> gas,
     entryGas |-> gasLeft, ret |-> NoResult]

Init ==
    /\ gasLeft \in InitGas
    /\ gasRefund = 0
    /\ logs = <<>>
    /\ storage = EmptyStorage
    /\ memory = InitMemory
    /\ opsQueue = <<>>
    /\ callbacks = <<>>
    /\ chainQueries = {}
    /\ pc = "idle"
    /\ frame = [op |-> "none", args |-> <<>>, high |-> 0, low |-> 0, gas |-> 0,
                entryGas |-> 0, ret |-> NoResult]
    /\ err = "none"
    /\ nOps = 0
    /\ returnValue = Copied(<<>>)
    /\ selfDestruct = FALSE
    /\ selfDestructAddress = Copied(Zeros(ADDRESS_SIZE_BYTES))
    /\ balances = InitBalances

\* The module may issue a host call: no call is running and no error ended the run.
CanCall == pc = "idle" /\ err = "none" /\ nOps < MaxOps

(* ---------------------------- the ops queue --------------------------- *)

\* One pending operation: the promise (its value, whether it has settled)
\* and what the completion closure captured.
Entry(op, args, settled, value, keyHex, valueHex, valIsZero) ==
    [id |-> nOps + 1, op |-> op, args |-> args, settled |-> settled,
     value |-> value, keyHex |-> keyHex, valueHex |-> valueHex,
     valIsZero |-> valIsZero]

\* kernel.pushOpsQueue(promise, cbIndex, callback)
pushOpsQueue(q, e) == Append(q, e)

\* The first entry whose promise has settled, whatever its age.
NextRunSettled(q) ==
    IF \E i \in 1..Len(q) : q[i].settled
    THEN CHOOSE i \in 1..Len(q) : q[i].settled /\ \A j \in 1..(i - 1) : ~q[j].settled
    ELSE 1

\* The position of the entry whose completion runs next: the oldest.
NextRun(q) == 1

\* Its completion may run once its promise has settled.
Runnable(q) == q # <<>> /\ q[NextRun(q)].settled

\* The queue without the entry at position i.
Without(q, i) == SubSeq(q, 1, i - 1) \o SubSeq(q, i + 1, Len(q))

(* --------------------------- gas shims -------------------------------- *)

\* $useGasShim: the i64 amount split in two i32 halves.
UseGasShim(amount) ==
    /\ CanCall
    /\ UNCHANGED outputs
    /\ frame' = Frame("useGas", <<amount>>, ToInt32(amount \div Two32),
                      ToInt32(amount % Two32), 0)
    /\ pc' = "_useGas"
    /\ nOps' = nOps + 1
    /\ UNCHANGED <<gasLeft, gasRefund, logs, storage, memory, opsQueue,
                   callbacks, chainQueries, err>>

\* _useGas(high, low)
UseGas ==
    /\ pc = "_useGas" /\ err = "none"
    /\ UNCHANGED outputs
    /\ LET r == takeGas(gasLeft, from64bit(frame.high, frame.low))
       IN /\ gasLeft' = r.gasLeft
          /\ err' = r.err
    /\ pc' = "idle"
    /\ UNCHANGED <<gasRefund, logs, storage, memory, opsQueue, callbacks,
                   chainQueries, frame, nOps>>

\* What the shim receives of a JavaScript number returned as an i32: the
\* number modulo 2^32, read as signed.
ResultInt32(x) == ToInt32(x % Two32)

\* _getGasLeftHigh(): Math.floor(gasLeft / 4294967296)
getGasLeftHigh(g) == g \div Two32

\* _getGasLeftLow(): gasLeft itself
getGasLeftLow(g) == g

\* The half sign-extended.
extend_s(x) == x

\* i64.extend_u/i32
extend_u(x) == IF x < 0 THEN x + Two32 ELSE x

\* $getGasLeft: useGas(0, 2), then the two halves shifted and added.
GetGasLeft ==
    /\ CanCall
    /\ UNCHANGED outputs
    /\ nOps' = nOps + 1
    /\ LET r == takeGas(gasLeft, from64bit(0, 2))
           high == ResultInt32(getGasLeftHigh(r.gasLeft))
           low == ResultInt32(getGasLeftLow(r.gasLeft))
           f == Frame("getGasLeft", <<>>, high, low, 0)
       IN /\ gasLeft' = r.gasLeft
          /\ err' = r.err
          /\ frame' = IF r.err # "none" THEN [f EXCEPT !.high = 0, !.low = 2]
                      ELSE [f EXCEPT !.ret = extend_u(high) * Two32 + extend_u(low)]
    /\ pc' = "idle"
    /\ UNCHANGED <<gasRefund, logs, storage, memory, opsQueue, callbacks,
                   chainQueries>>

(* ------------------------------- call --------------------------------- *)

\* The surcharge without the stipend taken off.
CallSurchargeNoStipend(gas) == 9000 + gas

\* What a call with a value is charged first (line 514).
CallSurcharge(gas) == 9000 - 2300 + gas

\* $callShim and _call up to the test of the value (lines 503-513); with a
\* zero value the call is queued at once (lines 518-523).
\* The value is built by new U256(bytes); only value.isZero() is read of
\* it, which holds exactly when the 16 bytes are zero in either byte order.
Call(gas64, valueOffset) ==
    /\ CanCall
    /\ UNCHANGED outputs
    /\ nOps' = nOps + 1
    /\ LET high == ToInt32(gas64 \div Two32)
           low == ToInt32(gas64 % Two32)
           r == takeGas(gasLeft, 40)
           gas == from64bit(high, low)
           value == U256_fromMemory(getMemory(memory, valueOffset, U128_SIZE_BYTES))
           f == Frame("call", <<gas64, valueOffset>>, high, low, gas)
       IN /\ frame' = f
          /\ gasLeft' = r.gasLeft
          /\ err' = r.err
          /\ IF r.err # "none" THEN pc' = "idle" /\ UNCHANGED opsQueue
             ELSE IF ~U256_isZero(value) THEN pc' = "_call514" /\ UNCHANGED opsQueue
             ELSE /\ pc' = "idle"
                  /\ opsQueue' = pushOpsQueue(opsQueue,
                        Entry("call", f.args, TRUE, <<>>, <<>>, <<>>, FALSE))
    /\ UNCHANGED <<gasRefund, logs, storage, memory, callbacks, chainQueries>>

\* _call line 514: this.takeGas(9000 - 2300 + gas)
CallCharge ==
    /\ pc = "_call514" /\ err = "none"
    /\ UNCHANGED outputs
    /\ LET r == takeGas(gasLeft, CallSurcharge(frame.gas))
       IN /\ gasLeft' = r.gasLeft
          /\ err' = r.err
          /\ pc' = IF r.err = "none" THEN "_call515" ELSE "idle"
    /\ UNCHANGED <<gasRefund, logs, storage, memory, opsQueue, callbacks,
                   chainQueries, frame, nOps>>

\* _call lines 515-523: this.takeGas(-gas), then the call is queued.
CallCredit ==
    /\ pc = "_call515" /\ err = "none"
    /\ UNCHANGED outputs
    /\ LET r == takeGas(gasLeft, 0 - frame.gas)
       IN /\ gasLeft' = r.gasLeft
          /\ err' = r.err
          /\ opsQueue' = IF r.err = "none"
                         THEN pushOpsQueue(opsQueue,
                                [Entry("call", frame.args, TRUE, <<>>, <<>>, <<>>, FALSE)
                                    EXCEPT !.id = nOps])
                         ELSE opsQueue
    /\ pc' = "idle"
    /\ UNCHANGED <<gasRefund, logs, storage, memory, callbacks, chainQueries,
                   frame, nOps>>

\* callCode(gas, addressOffset, valueOffset, ...)
CallCode(valueOffset) ==
    /\ CanCall
    /\ UNCHANGED outputs
    /\ nOps' = nOps + 1
    /\ LET r == takeGas(gasLeft, 40)
           value == U256_fromMemory(getMemory(memory, valueOffset, U128_SIZE_BYTES))
           r2 == IF r.err = "none" /\ ~U256_isZero(value)
                 THEN takeGas(r.gasLeft, 6700) ELSE r
           f == Frame("callCode", <<valueOffset>>, 0, 0, 0)
       IN /\ frame' = f
          /\ gasLeft' = r2.gasLeft
          /\ err' = r2.err
          /\ opsQueue' = IF r2.err = "none"
                         THEN pushOpsQueue(opsQueue,
                                Entry("callCode", f.args, TRUE, <<>>, <<>>, <<>>, FALSE))
                         ELSE opsQueue
    /\ pc' = "idle"
    /\ UNCHANGED <<gasRefund, logs, storage, memory, callbacks, chainQueries>>

(* ------------------------------- create ------------------------------ *)

\* environment.callValue of the run: 0x10.
CallValue == <<1, 0>>

\* environment.value: a field the constructor does not set and no code assigns.
EnvironmentValue == Undefined

\* a.gt(b) of two numbers.
U256_gt(a, b) ==
    \/ Len(a) > Len(b)
    \/ /\ Len(a) = Len(b)
       /\ \E i \in 1..Len(a) : a[i] > b[i] /\ \A j \in 1..(i - 1) : a[j] = b[j]

\* What value.gt(x) can do: with a number it compares; with undefined the
\* outcome is not fixed by the code at hand: an exception, or either answer.
GtOutcomes(a, b) ==
    IF b = Undefined THEN {"TypeError", "true", "false"}
    ELSE {IF U256_gt(a, b) THEN "true" ELSE "false"}

\* ethUtil.generateAddress(environment.address, environment.nonce): some
\* nonzero 20 bytes.
GenerateAddress == <<190>> \o Zeros(ADDRESS_SIZE_BYTES - 2) \o <<239>>

\* create(valueOffset, dataOffset, length, resultOffset, cbIndex)
Create(valueOffset, resultOffset) ==
    /\ CanCall
    /\ UNCHANGED outputs
    /\ nOps' = nOps + 1
    /\ LET r == takeGas(gasLeft, 32000)
           value == U256_fromMemory(getMemory(memory, valueOffset, U128_SIZE_BYTES))
           f == Frame("create", <<valueOffset, resultOffset>>, 0, 0, 0)
       IN /\ frame' = f
          /\ gasLeft' = r.gasLeft
          /\ IF r.err # "none" THEN err' = r.err /\ UNCHANGED opsQueue
             ELSE \E outcome \in GtOutcomes(value, EnvironmentValue) :
                    IF outcome = "TypeError"
                    THEN err' = "TypeError" /\ UNCHANGED opsQueue
                    ELSE /\ err' = "none"
                         /\ opsQueue' = pushOpsQueue(opsQueue,
                               Entry("create", f.args, TRUE,
                                     IF outcome = "true"
                                     THEN Zeros(ADDRESS_SIZE_BYTES)
                                     ELSE GenerateAddress,
                                     <<>>, <<>>, FALSE))
    /\ pc' = "idle"
    /\ UNCHANGED <<gasRefund, logs, storage, memory, callbacks, chainQueries>>

(* ---------------------------- callDelegate --------------------------- *)

\* environment.delegateCall(gas, address, data): the stub's answer.
delegateCall == [errorCode |-> 1, result |-> <<>>]

\* callDelegate(gas, addressOffset, dataOffset, dataLength, resultOffset,
\* resultLength). After the debit it evaluates this.environment.callDelegate:
\* the interface has the fields kernel, shims and module and no field
\* environment (the environment is this.kernel.environment, and its method
\* is named delegateCall), so the evaluation throws a TypeError.
CallDelegate(resultOffset) ==
    /\ CanCall
    /\ UNCHANGED outputs
    /\ nOps' = nOps + 1
    /\ frame' = Frame("callDelegate", <<resultOffset>>, 0, 0, 0)
    /\ LET r == takeGas(gasLeft, 40)
       IN /\ gasLeft' = r.gasLeft
          /\ err' = IF r.err # "none" THEN r.err ELSE "TypeError"
    /\ pc' = "idle"
    /\ UNCHANGED <<gasRefund, logs, storage, memory, opsQueue, callbacks,
                   chainQueries>>

(* ------------------------------ storage ------------------------------- *)

\* The 32 bytes at `offset` reversed in place: getMemory gives a view of the
\* module's memory, and key.reverse() reverses the view.
ReverseInPlace(mem, offset) ==
    setMemory(mem, offset, Reverse(getMemory(mem, offset, U256_SIZE_BYTES)))

\* U256.fromMemory(bytes).toString(16) of bytes that were reversed first.
HexOfReversed(bytes) == U256_toString(U256_fromMemory(Reverse(bytes)))

IsZeroBytes(bytes) == \A i \in 1..Len(bytes) : bytes[i] = 0

\* this.kernel.environment.state[contextAccount]['storage'][keyHex]
StorageGet(st, keyHex) == IF keyHex \in DOMAIN st THEN st[keyHex] ELSE Undefined

\* storage[keyHex] = valueHex
StorageSet(st, keyHex, valueHex) ==
    [k \in DOMAIN st \cup {keyHex} |-> IF k = keyHex THEN valueHex ELSE st[k]]

\* storageStore(keyOffset, valueOffset, cbIndex), lines 587-604 and the push.
StorageStore(keyOffset, valueOffset) ==
    /\ CanCall
    /\ UNCHANGED outputs
    /\ nOps' = nOps + 1
    /\ LET r == takeGas(gasLeft, 5000)
           key == getMemory(memory, keyOffset, U256_SIZE_BYTES)
           mem1 == ReverseInPlace(memory, keyOffset)
           keyHex == HexOfReversed(key)
           value == getMemory(mem1, valueOffset, U256_SIZE_BYTES)
           valueHex == HexOfReversed(value)
           valIsZero == IsZeroBytes(value)
           oldStorageVal == StorageGet(storage, keyHex)
           f == Frame("storageStore", <<keyOffset, valueOffset>>, 0, 0, 0)
       IN /\ frame' = f
          /\ gasLeft' = r.gasLeft
          /\ err' = r.err
          /\ IF r.err # "none" THEN UNCHANGED <<memory, opsQueue>>
             ELSE /\ memory' = mem1
                  /\ opsQueue' = pushOpsQueue(opsQueue,
                        Entry("storageStore", f.args, TRUE, oldStorageVal, keyHex,
                              valueHex, valIsZero))
    /\ pc' = "idle"
    /\ UNCHANGED <<gasRefund, logs, storage, callbacks, chainQueries>>

\* storageLoad(keyOffset, resultOffset, cbIndex), lines 626-643 and the push.
StorageLoad(keyOffset, resultOffset) ==
    /\ CanCall
    /\ UNCHANGED outputs
    /\ nOps' = nOps + 1
    /\ LET r == takeGas(gasLeft, 50)
           key == getMemory(memory, keyOffset, U256_SIZE_BYTES)
           mem1 == ReverseInPlace(memory, keyOffset)
           keyHex == HexOfReversed(key)
           stored == StorageGet(storage, keyHex)
           value == IF stored = Undefined THEN Zeros(U256_SIZE_BYTES)
                    ELSE U256_toMemory(U256_new(stored), U256_SIZE_BYTES)
           f == Frame("storageLoad", <<keyOffset, resultOffset>>, 0, 0, 0)
       IN /\ frame' = f
          /\ gasLeft' = r.gasLeft
          /\ err' = r.err
          /\ IF r.err # "none" THEN UNCHANGED <<memory, opsQueue>>
             ELSE /\ memory' = mem1
                  /\ opsQueue' = pushOpsQueue(opsQueue,
                        Entry("storageLoad", f.args, TRUE, value, keyHex, <<>>, FALSE))
    /\ pc' = "idle"
    /\ UNCHANGED <<gasRefund, logs, storage, callbacks, chainQueries>>

(* ------------------------------ balance ------------------------------- *)

\* Every account taken for absent.
BalanceOfNobody(st, addressHex) == <<0>>

\* state[addressHex].balance if state has the address, else '0x0'.
BalanceOf(st, addressHex) == IF addressHex \in DOMAIN st THEN st[addressHex] ELSE <<0>>

\* getBalance(addressOffset, offset, cbIndex)
GetBalance(addressOffset, offset) ==
    /\ CanCall
    /\ UNCHANGED outputs
    /\ nOps' = nOps + 1
    /\ LET r == takeGas(gasLeft, 20)
           address == getMemory(memory, addressOffset, ADDRESS_SIZE_BYTES)
           balance == BalanceOf(balances, AddressHex(address))
           f == Frame("getBalance", <<addressOffset, offset>>, 0, 0, 0)
       IN /\ frame' = f
          /\ gasLeft' = r.gasLeft
          /\ err' = r.err
          /\ opsQueue' = IF r.err = "none"
                         THEN pushOpsQueue(opsQueue,
                                Entry("getBalance", f.args, TRUE, U256_new(balance),
                                      <<>>, <<>>, FALSE))
                         ELSE opsQueue
    /\ pc' = "idle"
    /\ UNCHANGED <<gasRefund, logs, storage, memory, callbacks, chainQueries>>

(* ----------------------------- block hash ----------------------------- *)

\* environment.blockchain.getBlock(height).hash(): some nonzero hash of the height.
BlockHashOf(height) == <<1, (height \div 16) % 16, height % 16>>

\* The current block taken for a past one.
HashOutOfRangeOffByOne(diff) == diff > 256 \/ diff < 0

\* Whether getBlockHash answers the zero hash itself (line 354).
HashOutOfRange(diff) == diff > 256 \/ diff <= 0

\* getBlockHash(number, offset, cbOffset)
GetBlockHash(number, offset) ==
    /\ CanCall
    /\ UNCHANGED outputs
    /\ nOps' = nOps + 1
    /\ LET r == takeGas(gasLeft, 20)
           diff == BlockNumber - number
           f == Frame("getBlockHash", <<number, offset>>, 0, 0, 0)
       IN /\ frame' = f
          /\ gasLeft' = r.gasLeft
          /\ err' = r.err
          /\ IF r.err # "none" THEN UNCHANGED <<opsQueue, chainQueries>>
             ELSE IF HashOutOfRange(diff)
             THEN /\ opsQueue' = pushOpsQueue(opsQueue,
                        Entry("getBlockHash", f.args, TRUE, U256_new(<<0>>), <<>>, <<>>, FALSE))
                  /\ UNCHANGED chainQueries
             ELSE /\ opsQueue' = pushOpsQueue(opsQueue,
                        Entry("getBlockHash", f.args, TRUE, BlockHashOf(number), <<>>, <<>>, FALSE))
                  /\ chainQueries' = chainQueries \cup {number}
    /\ pc' = "idle"
    /\ UNCHANGED <<gasRefund, logs, storage, memory, callbacks>>

(* -------------------------------- log --------------------------------- *)

\* The topics log pushes: one per `numberOfTopics > i` test, in order.
LogTopics(mem, numberOfTopics, topicOffsets) ==
    [i \in 1..numberOfTopics |->
        U256_fromMemory(getMemory(mem, topicOffsets[i], U256_SIZE_BYTES))]

\* Four topics refused.
InvalidTopicsOffByOne(numberOfTopics) == numberOfTopics < 0 \/ numberOfTopics > 3

\* Whether log rejects the number of topics (line 429).
InvalidTopics(numberOfTopics) == numberOfTopics < 0 \/ numberOfTopics > 4

\* The entry put in front.
logsUnshift(l, entry) == <<entry>> \o l

\* this.kernel.environment.logs.push(entry)
logsPush(l, entry) == Append(l, entry)

\* log(dataOffset, length, numberOfTopics, topic1, topic2, topic3, topic4)
Log(dataOffset, length, numberOfTopics, topicOffsets) ==
    /\ CanCall
    /\ UNCHANGED outputs
    /\ nOps' = nOps + 1
    /\ frame' = Frame("log", <<dataOffset, length, numberOfTopics, topicOffsets>>, 0, 0, 0)
    /\ pc' = "idle"
    /\ IF InvalidTopics(numberOfTopics)
       THEN err' = "Invalid numberOfTopics" /\ UNCHANGED <<gasLeft, logs>>
       ELSE LET r == takeGas(gasLeft, 375 + length * 8 + numberOfTopics * 375)
            IN /\ gasLeft' = r.gasLeft
               /\ IF r.err # "none" THEN err' = r.err /\ UNCHANGED logs
                  \* a negative length: the Uint8Array constructor throws
                  ELSE IF length < 0 THEN err' = "RangeError" /\ UNCHANGED logs
                  ELSE /\ err' = "none"
                       /\ logs' = logsPush(logs,
                            [data |-> IF length # 0
                                      THEN getMemory(memory, dataOffset, length)
                                      ELSE <<>>,
                             topics |-> LogTopics(memory, numberOfTopics, topicOffsets)])
    /\ UNCHANGED <<gasRefund, storage, memory, opsQueue, callbacks, chainQueries>>

(* ----------------------------- call data ----------------------------- *)

\* environment.callData of the run.
CallData == <<170, 187>>

\* Math.ceil(length / 32)
CeilWords(length) == 0 - ((0 - length) \div 32)

\* buffer.slice(from, to): the ends are clamped to the buffer.
Slice(buf, from, to) == SubSeq(buf, from + 1, IF to > Len(buf) THEN Len(buf) ELSE to)

\* callDataCopy(offset, dataOffset, length)
CallDataCopy(offset, dataOffset, length) ==
    /\ CanCall
    /\ UNCHANGED outputs
    /\ nOps' = nOps + 1
    /\ frame' = Frame("callDataCopy", <<offset, dataOffset, length>>, 0, 0, 0)
    /\ pc' = "idle"
    /\ LET r == takeGas(gasLeft, 3 + CeilWords(length) * 3)
       IN /\ gasLeft' = r.gasLeft
          /\ IF r.err # "none" THEN err' = r.err /\ UNCHANGED memory
             ELSE IF length = 0 THEN err' = "none" /\ UNCHANGED memory
             \* a negative length: the Uint8Array constructor throws
             ELSE IF length < 0 THEN err' = "RangeError" /\ UNCHANGED memory
             ELSE /\ err' = "none"
                  /\ memory' = setMemory(memory, offset,
                                    Slice(CallData, dataOffset, dataOffset + length))
    /\ UNCHANGED <<gasRefund, logs, storage, opsQueue, callbacks, chainQueries>>

(* ------------------------ return and selfDestruct --------------------- *)

\* The window itself kept, not a copy of it.
ReturnBufferView(mem, offset, length) == View(offset, length)

\* this.getMemory(offset, length).slice(0)
ReturnBuffer(mem, offset, length) == Copied(getMemory(mem, offset, length))

\* return(offset, length)
Return(offset, length) ==
    /\ CanCall
    /\ nOps' = nOps + 1
    /\ frame' = Frame("return", <<offset, length>>, 0, 0, 0)
    /\ pc' = "idle"
    /\ IF length = 0 THEN UNCHANGED <<returnValue, err>>
       \* a negative length: the Uint8Array constructor throws
       ELSE IF length < 0 THEN err' = "RangeError" /\ UNCHANGED returnValue
       ELSE /\ returnValue' = ReturnBuffer(memory, offset, length)
            /\ UNCHANGED err
    /\ UNCHANGED <<gasLeft, gasRefund, logs, storage, memory, opsQueue, callbacks,
                   chainQueries, selfDestruct, selfDestructAddress, balances>>

\* The credit counted twice.
RefundedTwice(refund) == refund + 24000 + 24000

\* The credit taken off.
RefundTaken(refund) == refund - 24000

\* environment.gasRefund += 24000
Refunded(refund) == refund + 24000

\* selfDestruct(addressOffset): the address kept is the window getMemory
\* returns.
SelfDestruct(addressOffset) ==
    /\ CanCall
    /\ nOps' = nOps + 1
    /\ frame' = Frame("selfDestruct", <<addressOffset>>, 0, 0, 0)
    /\ pc' = "idle"
    /\ selfDestruct' = TRUE
    /\ selfDestructAddress' = View(addressOffset, ADDRESS_SIZE_BYTES)
    /\ gasRefund' = Refunded(gasRefund)
    /\ UNCHANGED <<gasLeft, logs, storage, memory, opsQueue, callbacks,
                   chainQueries, err, returnValue, balances>>

(* ---------------------------- completions ----------------------------- *)

\* The deletion forgotten.
StorageDeleteKept(st, keyHex) == st

\* delete storage[keyHex]
StorageDelete(st, keyHex) == [k \in DOMAIN st \ {keyHex} |-> st[k]]

\* The test of the old value forgotten.
CreatesSlotAlways(e) == ~e.valIsZero

\* if (valIsZero && oldValue): a string is truthy, undefined is not.
DeletesSlot(e) == e.valIsZero /\ e.value # Undefined

\* if (!valIsZero && !oldValue)
CreatesSlot(e) == ~e.valIsZero /\ e.value = Undefined

\* The callback storageStore queued (lines 605-618), run on the old value
\* the promise resolved to.
StoreDone(e) ==
    IF DeletesSlot(e)
    THEN /\ gasRefund' = gasRefund + 15000
         /\ storage' = StorageDelete(storage, e.keyHex)
         /\ callbacks' = Append(callbacks, [id |-> e.id, result |-> NoResult])
         /\ UNCHANGED <<gasLeft, err>>
    ELSE LET r == IF CreatesSlot(e)
                  THEN takeGas(gasLeft, 15000)
                  ELSE [gasLeft |-> gasLeft, err |-> "none"]
         IN /\ gasLeft' = r.gasLeft
            /\ err' = r.err
            /\ IF r.err = "none"
               THEN /\ storage' = StorageSet(storage, e.keyHex, e.valueHex)
                    /\ callbacks' = Append(callbacks, [id |-> e.id, result |-> NoResult])
               ELSE UNCHANGED <<storage, callbacks>>
            /\ UNCHANGED gasRefund

\* What the callback of a queued operation writes to memory.
CompletionWrite(e) ==
    CASE e.op = "getBlockHash" -> U256_toMemory(e.value, U256_SIZE_BYTES)
      [] e.op = "getBalance" -> U256_toMemory(e.value, U128_SIZE_BYTES)
      [] e.op = "create" -> e.value
      [] e.op = "storageLoad" -> e.value
      [] e.op = "op" -> <<e.id>>
      [] OTHER -> <<>>

\* Where it writes: the result offset its closure captured.
CompletionOffset(e) ==
    IF e.op \in {"getBlockHash", "storageLoad", "getBalance", "create", "op"}
    THEN e.args[2] ELSE 0

\* A stubbed call reporting a trap.
CompletionResultTrapped(e) == IF e.op \in {"call", "callCode"} THEN 0 ELSE NoResult

\* The number the callback of a queued operation returns.
CompletionResult(e) == IF e.op \in {"call", "callCode"} THEN 1 ELSE NoResult

\* The queue runs the oldest operation's callback once its promise has
\* settled, then the module's callback, and drops the entry.
RunHead ==
    /\ pc = "idle" /\ err = "none"
    /\ UNCHANGED outputs
    /\ Runnable(opsQueue)
    /\ LET e == opsQueue[NextRun(opsQueue)]
       IN /\ opsQueue' = Without(opsQueue, NextRun(opsQueue))
          /\ IF e.op = "storageStore"
             THEN StoreDone(e) /\ UNCHANGED memory
             ELSE /\ memory' = setMemory(memory, CompletionOffset(e), CompletionWrite(e))
                  /\ callbacks' = Append(callbacks,
                        [id |-> e.id, result |-> CompletionResult(e)])
                  /\ UNCHANGED <<gasLeft, gasRefund, storage, err>>
    /\ UNCHANGED <<logs, chainQueries, pc, frame, nOps>>

(* --------------------------- specification ---------------------------- *)

\* 64-bit amounts the module passes to useGas and as the gas of a call.
GasAmounts == {0, 5000, Two32 - 1, (Two32 \div 2) * Two32 + 5}
CallGas == {5, 100, Two32 - 1}

KeyOffsets == {0, 32}
ValueOffsets == {0, 32}
ResultOffsets == {96}
AddressOffsets == {0, 32}
\* <<offset, length>> of the return calls.
ReturnArgs == {<<0, 2>>, <<64, 1>>, <<0, 0>>, <<0, 0 - 1>>}
BlockNumbers == {BlockNumber, BlockNumber - 1, BlockNumber - 256,
                 BlockNumber - 257, BlockNumber + 1}
\* <<length, numberOfTopics>> of the log calls.
LogArgs == {<<0, 0 - 1>>, <<0, 5>>, <<0, 0>>, <<2, 2>>, <<2, 4>>, <<0 - 100, 1>>}

Next ==
    \/ \E amount \in GasAmounts : UseGasShim(amount)
    \/ UseGas
    \/ \E gas64 \in CallGas, valueOffset \in ValueOffsets : Call(gas64, valueOffset)
    \/ CallCharge
    \/ CallCredit
    \/ \E valueOffset \in ValueOffsets : CallCode(valueOffset)
    \/ \E keyOffset \in KeyOffsets, valueOffset \in ValueOffsets :
            StorageStore(keyOffset, valueOffset)
    \/ \E keyOffset \in KeyOffsets, resultOffset \in ResultOffsets :
            StorageLoad(keyOffset, resultOffset)
    \/ \E number \in BlockNumbers, offset \in ResultOffsets : GetBlockHash(number, offset)
    \/ \E a \in LogArgs : Log(0, a[1], a[2], <<0, 32, 64, 96>>)
    \/ \E length \in {0, 33, 0 - 64} : CallDataCopy(96, 0, length)
    \/ \E addressOffset \in AddressOffsets, offset \in ResultOffsets :
            GetBalance(addressOffset, offset)
    \/ \E valueOffset \in ValueOffsets, resultOffset \in ResultOffsets :
            Create(valueOffset, resultOffset)
    \/ \E resultOffset \in ResultOffsets : CallDelegate(resultOffset)
    \/ \E a \in ReturnArgs : Return(a[1], a[2])
    \/ \E addressOffset \in AddressOffsets \cup ResultOffsets :
            SelfDestruct(addressOffset)
    \/ GetGasLeft
    \/ RunHead

Spec == Init /\ [][Next]_vars

(* ------------------- the queue alone, promises pending ----------------- *)

\* An operation whose promise has not settled yet is pushed; its
\* callback will write the operation's number at resultOffset.
PushOp(resultOffset) ==
    /\ pc = "idle" /\ err = "none" /\ nOps < MaxPush
    /\ UNCHANGED outputs
    /\ nOps' = nOps + 1
    /\ frame' = Frame("op", <<0, resultOffset>>, 0, 0, 0)
    /\ opsQueue' = pushOpsQueue(opsQueue,
            Entry("op", <<0, resultOffset>>, FALSE, <<>>, <<>>, <<>>, FALSE))
    /\ UNCHANGED <<gasLeft, gasRefund, logs, storage, memory, callbacks,
                   chainQueries, pc, err>>

\* The promise of the pending operation at position i settles.
Settle(i) ==
    /\ err = "none"
    /\ UNCHANGED outputs
    /\ i \in 1..Len(opsQueue)
    /\ ~opsQueue[i].settled
    /\ opsQueue' = [opsQueue EXCEPT ![i].settled = TRUE]
    /\ UNCHANGED <<gasLeft, gasRefund, logs, storage, memory, callbacks,
                   chainQueries, pc, frame, err, nOps>>

NextQueue ==
    \/ \E resultOffset \in {96, 100} : PushOp(resultOffset)
    \/ \E i \in 1..MaxPush : Settle(i)
    \/ RunHead

SpecQueue == Init /\ [][NextQueue]_vars

(* ======================== properties of the code ====================== *)

\* The step issues host call `op`.
Issues(op) == nOps' = nOps + 1 /\ frame'.op = op

\* The step runs the completion of the oldest queued operation.
Completes == Len(opsQueue') < Len(opsQueue)

\* The entry a step has just queued.
Queued == opsQueue'[Len(opsQueue')]

\* The amount the single takeGas call of the step in progress is given.
AmountInProgress ==
    CASE pc = "_useGas" -> from64bit(frame.high, frame.low)
      [] pc = "_call514" -> CallSurcharge(frame.gas)
      [] pc = "_call515" -> 0 - frame.gas
      [] OTHER -> 0

(* C1: takeGas(a) succeeds and leaves gasLeft - a when a <= gasLeft; when   *)
(* a > gasLeft it fails with the out-of-gas error and gasLeft is unchanged. *)
(* Checked on every step that is one takeGas call: _useGas and the two      *)
(* debits of a value-carrying call (the second with a negative amount).     *)
C1_TakeGasContract ==
    [][pc # "idle" =>
        /\ AmountInProgress <= gasLeft =>
              gasLeft' = gasLeft - AmountInProgress /\ err' = "none"
        /\ AmountInProgress > gasLeft =>
              gasLeft' = gasLeft /\ err' = "Ran out of gas"]_vars

\* A useGas that ran out of gas after an earlier debit had succeeded.
C1_Witness ==
    /\ frame.op = "useGas" /\ pc = "idle"
    /\ err = "Ran out of gas"
    /\ gasLeft \notin InitGas

(* C2: gasLeft is never negative, in any state a sequence of host calls and *)
(* completions reaches, the states inside a value-carrying call included.   *)
C2_GasNeverNegative == gasLeft >= 0

\* Inside a call with a value, between its debit and its credit, the tank empty.
C2_Witness == pc = "_call515" /\ gasLeft = 0

(* C9: a call with a nonzero value that completes its gas accounting leaves *)
(* gasLeft 6740 below what it was when the call was made, whatever gas it   *)
(* forwards; a call with a zero value leaves it 40 below.                   *)
C9_CallGas ==
    [][/\ pc = "_call515" => err' = "none" /\ gasLeft' = frame.entryGas - 6740
       /\ Issues("call") /\ err' = "none" =>
            LET zero == IsZeroBytes(getMemory(memory, frame'.args[2], U128_SIZE_BYTES))
            IN /\ zero => pc' = "idle" /\ gasLeft' = gasLeft - 40
               /\ ~zero => pc' = "_call514"]_vars

\* A value-carrying call done, its forwarded gas delivered as a negative half.
C9_Witness ==
    /\ frame.op = "call" /\ pc = "idle" /\ err = "none"
    /\ frame.low < 0
    /\ gasLeft = frame.entryGas - 6740
    /\ opsQueue # <<>> /\ opsQueue[Len(opsQueue)].op = "call"

\* The unsigned reading of a signed half: a negative one plus 2^32.
ToUint32(x) == IF x < 0 THEN x + Two32 ELSE x

(* C10: the amount useGas passes to takeGas is uhigh * 2^32 + ulow, uhigh   *)
(* and ulow the unsigned readings of the two halves it was given.           *)
C10_Reconstruct ==
    pc = "_useGas" =>
        from64bit(frame.high, frame.low)
            = ToUint32(frame.high) * Two32 + ToUint32(frame.low)

(* C3: operations pushed in the order 1..N, their promises settling in any *)
(* order, complete in the order 1..N: the callbacks run are those of        *)
(* operations 1, 2, 3, ... and the last write to memory is that of the last *)
(* operation completed.                                                     *)
C3_QueueOrder ==
    /\ \A i \in 1..Len(callbacks) : callbacks[i].id = i
    /\ \A i \in 1..Len(opsQueue) : opsQueue[i].id = Len(callbacks) + i
    /\ memory[97] <= Len(callbacks) /\ memory[101] <= Len(callbacks)
    /\ callbacks # <<>> => Len(callbacks) \in {memory[97], memory[101]}

\* A completion has run, and of the two oldest pending operations the
\* younger one has settled while the older one has not.
C3_Witness ==
    /\ callbacks # <<>>
    /\ Len(opsQueue) >= 2
    /\ ~opsQueue[1].settled /\ opsQueue[2].settled

\* Values the module stores.
TestWords == {WordA, WordB, Reverse(WordA)}

(* C4: storageLoad(k), issued when the slot of k holds what storageStore(k, *)
(* v) wrote for a nonzero v, resolves to exactly the bytes v; for a key     *)
(* that is not set it resolves to 32 zero bytes; and its completion writes  *)
(* the resolved bytes at the result offset.                                 *)
C4_RoundTrip ==
    [][/\ Issues("storageLoad") /\ err' = "none" =>
            LET keyHex == HexOfReversed(getMemory(memory, frame'.args[1], U256_SIZE_BYTES))
            IN /\ keyHex \notin DOMAIN storage => Queued.value = Zeros(U256_SIZE_BYTES)
               /\ \A v \in TestWords :
                    (/\ ~IsZeroBytes(v)
                     /\ keyHex \in DOMAIN storage
                     /\ storage[keyHex] = HexOfReversed(v)) => Queued.value = v
       /\ Completes /\ Head(opsQueue).op = "storageLoad" =>
            getMemory(memory', Head(opsQueue).args[2], U256_SIZE_BYTES)
                = Head(opsQueue).value]_vars

\* What a storageStore call reads of the slot of the key it is given.
SlotAtCall(keyOffset) ==
    StorageGet(storage, HexOfReversed(getMemory(memory, keyOffset, U256_SIZE_BYTES)))

(* C5: a storageStore of the zero value, called when the slot of its key    *)
(* holds a value, is charged 5000 at the call; its completion leaves the    *)
(* slot absent, adds exactly 15000 to gasRefund and charges no gas.         *)
C5_StoreZeroRefund ==
    [][/\ Issues("storageStore") /\ err' = "none" =>
            /\ gasLeft' = gasLeft - 5000 /\ gasRefund' = gasRefund
            /\ Queued.value = SlotAtCall(frame'.args[1])
       /\ (/\ Completes /\ Head(opsQueue).op = "storageStore"
           /\ Head(opsQueue).valIsZero /\ Head(opsQueue).value # Undefined) =>
            /\ Head(opsQueue).keyHex \notin DOMAIN storage'
            /\ gasRefund' = gasRefund + 15000
            /\ gasLeft' = gasLeft /\ err' = "none"]_vars

\* A zero store over a slot that was set has completed: the refund is in,
\* the storage is empty again.
C5_Witness ==
    /\ gasRefund = 15000
    /\ Len(callbacks) = 2
    /\ storage = EmptyStorage
    /\ \E g \in InitGas : gasLeft = g - 25000

(* C6: a storageStore of a nonzero value is charged 5000 at the call; when  *)
(* the slot of its key was unset at the call, its completion is charged     *)
(* 15000 more (20000 in all) and then writes the slot; when the slot was    *)
(* set, its completion writes the slot, charges nothing and leaves          *)
(* gasRefund unchanged.                                                     *)
C6_StoreNonZero ==
    [][/\ Issues("storageStore") /\ err' = "none" =>
            /\ gasLeft' = gasLeft - 5000
            /\ Queued.value = SlotAtCall(frame'.args[1])
            /\ Queued.valIsZero =
                 IsZeroBytes(getMemory(memory', frame'.args[2], U256_SIZE_BYTES))
       /\ (/\ Completes /\ Head(opsQueue).op = "storageStore"
           /\ ~Head(opsQueue).valIsZero /\ err' = "none") =>
            LET e == Head(opsQueue)
            IN /\ e.keyHex \in DOMAIN storage' /\ storage'[e.keyHex] = e.valueHex
               /\ gasRefund' = gasRefund
               /\ gasLeft' = IF e.value = Undefined THEN gasLeft - 15000 ELSE gasLeft]_vars

\* A nonzero store over a set slot has completed: 2 * 5000 + 15000 spent.
C6_Witness ==
    /\ Len(callbacks) = 2 /\ opsQueue = <<>>
    /\ Cardinality(DOMAIN storage) = 1
    /\ \A k \in DOMAIN storage : storage[k] # <<0>>
    /\ \E g \in InitGas : gasLeft = g - 25000
    /\ gasRefund = 0

(* C7: getBlockHash(n), with diff = block.number - n: when diff > 256 or    *)
(* diff <= 0 the chain is not asked and the completion writes 32 zero       *)
(* bytes; otherwise the completion writes the hash the chain gives for n.   *)
C7_BlockHash ==
    [][/\ Issues("getBlockHash") /\ err' = "none" =>
            LET number == frame'.args[1]
                diff == BlockNumber - number
            IN IF diff > 256 \/ diff <= 0
               THEN chainQueries' = chainQueries /\ U256_isZero(Queued.value)
               ELSE number \in chainQueries' /\ Queued.value = BlockHashOf(number)
       /\ Completes /\ Head(opsQueue).op = "getBlockHash" =>
            LET number == Head(opsQueue).args[1]
                diff == BlockNumber - number
            IN getMemory(memory', Head(opsQueue).args[2], U256_SIZE_BYTES)
                 = IF diff > 256 \/ diff <= 0 THEN Zeros(U256_SIZE_BYTES)
                   ELSE U256_toMemory(BlockHashOf(number), U256_SIZE_BYTES)]_vars

\* The hash of the oldest block still in range has been written.
C7_Witness ==
    /\ callbacks # <<>>
    /\ chainQueries = {BlockNumber - 256}
    /\ getMemory(memory, 96, U256_SIZE_BYTES)
         = U256_toMemory(BlockHashOf(BlockNumber - 256), U256_SIZE_BYTES)

(* C8: log with numberOfTopics below 0 or above 4 fails with the invalid-   *)
(* argument error and leaves logs and gasLeft unchanged; with 0..4 topics,  *)
(* a length >= 0 and enough gas it appends exactly one entry, whose topics  *)
(* are the first numberOfTopics topics given, in order, and whose data is   *)
(* the `length` bytes at dataOffset (none when length = 0).                 *)
C8_Log ==
    [][Issues("log") =>
        LET dataOffset == frame'.args[1]
            length == frame'.args[2]
            n == frame'.args[3]
            topicOffsets == frame'.args[4]
        IN /\ (n < 0 \/ n > 4) =>
                err' = "Invalid numberOfTopics" /\ logs' = logs /\ gasLeft' = gasLeft
           /\ (n \in 0..4 /\ length >= 0 /\ gasLeft >= 375 + length * 8 + n * 375) =>
                /\ err' = "none"
                /\ Len(logs') = Len(logs) + 1
                /\ SubSeq(logs', 1, Len(logs)) = logs
                /\ logs'[Len(logs')].data = getMemory(memory, dataOffset, length)
                /\ Len(logs'[Len(logs')].topics) = n
                /\ \A i \in 1..n :
                     U256_toMemory(logs'[Len(logs')].topics[i], U256_SIZE_BYTES)
                        = getMemory(memory, topicOffsets[i], U256_SIZE_BYTES)]_vars

\* A log with four topics and two bytes of data was appended.
C8_Witness ==
    /\ logs # <<>>
    /\ Len(logs[Len(logs)].topics) = 4
    /\ logs[Len(logs)].data = <<1, 2>>
    /\ logs[Len(logs)].topics[3] = U256_fromMemory(WordB)

(* C11: getBalance is charged 20 and resolves to the balance the state      *)
(* holds for the 20-byte address that is at addressOffset when the call is  *)
(* made, zero when the state has no such account; its completion writes     *)
(* that balance as 16 little-endian bytes at offset, and the module         *)
(* callback is recorded with that write done.                               *)
C11_GetBalance ==
    [][/\ Issues("getBalance") /\ err' = "none" =>
            LET addressHex == AddressHex(getMemory(memory, frame'.args[1],
                                                   ADDRESS_SIZE_BYTES))
            IN /\ gasLeft' = gasLeft - 20
               /\ addressHex \in DOMAIN balances =>
                     Queued.value = U256_new(balances[addressHex])
               /\ addressHex \notin DOMAIN balances => U256_isZero(Queued.value)
       /\ Completes /\ Head(opsQueue).op = "getBalance" =>
            /\ getMemory(memory', Head(opsQueue).args[2], U128_SIZE_BYTES)
                 = U256_toMemory(Head(opsQueue).value, U128_SIZE_BYTES)
            /\ callbacks' = Append(callbacks,
                    [id |-> Head(opsQueue).id, result |-> NoResult])]_vars

\* The balance 0xde0b6b3a7640000 stands at the result offset as the module
\* reads it with i64.load, and the callback has run.
C11_Witness ==
    /\ Len(callbacks) = 1
    /\ frame.op = "getBalance"
    /\ getMemory(memory, 96, U128_SIZE_BYTES)
         = <<0, 0, 100, 167, 179, 182, 224, 13>> \o Zeros(8)

(* C12: create is charged 32000; when the value read from memory exceeds    *)
(* the call's deposited value (callValue) it resolves to the 20-byte zero   *)
(* address, otherwise to the address derived from the environment's address *)
(* and nonce; its completion writes the resolved address at resultOffset.   *)
C12_Create ==
    [][/\ Issues("create") /\ gasLeft >= 32000 =>
            LET value == U256_fromMemory(getMemory(memory, frame'.args[1],
                                                   U128_SIZE_BYTES))
            IN /\ err' = "none"
               /\ gasLeft' = gasLeft - 32000
               /\ Len(opsQueue') = Len(opsQueue) + 1
               /\ Queued.value = IF U256_gt(value, CallValue)
                                 THEN Zeros(ADDRESS_SIZE_BYTES)
                                 ELSE GenerateAddress
       /\ Completes /\ Head(opsQueue).op = "create" =>
            getMemory(memory', Head(opsQueue).args[2], ADDRESS_SIZE_BYTES)
                = Head(opsQueue).value]_vars

(* C13: callDelegate with 40 gas at hand is charged 40, queues nothing,     *)
(* writes the output bytes of the environment's delegate-call collaborator  *)
(* at resultOffset and returns the collaborator's error code.               *)
C13_CallDelegate ==
    [][Issues("callDelegate") /\ gasLeft >= 40 =>
            /\ err' = "none"
            /\ gasLeft' = gasLeft - 40
            /\ opsQueue' = opsQueue
            /\ memory' = setMemory(memory, frame'.args[1], delegateCall.result)
            /\ frame'.ret = delegateCall.errorCode]_vars

(* C14: a call or callCode whose gas debits succeed queues exactly one      *)
(* completion, and that completion returns 1 and writes nothing; callCode   *)
(* is charged 40, and 6700 more exactly when its value is nonzero. A call   *)
(* that carries a value queues nothing before its last debit is done.       *)
C14_CallStub ==
    [][/\ Issues("callCode") /\ err' = "none" =>
            LET zero == IsZeroBytes(getMemory(memory, frame'.args[1], U128_SIZE_BYTES))
            IN /\ gasLeft' = gasLeft - (IF zero THEN 40 ELSE 40 + 6700)
               /\ opsQueue' = Append(opsQueue, Queued)
               /\ Queued.op = "callCode" /\ Queued.id = nOps'
       /\ Issues("call") =>
            IF err' = "none" /\ pc' = "idle"
            THEN /\ opsQueue' = Append(opsQueue, Queued)
                 /\ Queued.op = "call" /\ Queued.id = nOps'
            ELSE opsQueue' = opsQueue
       /\ pc = "_call514" => opsQueue' = opsQueue
       /\ pc = "_call515" =>
            /\ err' = "none"
            /\ opsQueue' = Append(opsQueue, Queued)
            /\ Queued.op = "call" /\ Queued.id = nOps
       /\ Completes /\ Head(opsQueue).op \in {"call", "callCode"} =>
            /\ callbacks' = Append(callbacks, [id |-> Head(opsQueue).id, result |-> 1])
            /\ memory' = memory /\ err' = "none"]_vars

\* A callCode with a value and a call with a value have both completed
\* with the result 1.
C14_Witness ==
    /\ Len(callbacks) = 2 /\ opsQueue = <<>>
    /\ callbacks[1].result = 1 /\ callbacks[2].result = 1
    /\ frame.op = "callCode"
    /\ \E g \in InitGas : gasLeft = g - 6740 - 6740

(* C15: selfDestruct(addressOffset) sets the selfDestruct flag, makes the   *)
(* 20 bytes at addressOffset the beneficiary and adds exactly 24000 to      *)
(* gasRefund; gasLeft, the balances, storage, logs and returnValue are as   *)
(* before and the call does not fail.                                       *)
C15_SelfDestruct ==
    [][Issues("selfDestruct") =>
            /\ selfDestruct'
            /\ BytesOf(selfDestructAddress', memory')
                 = getMemory(memory, frame'.args[1], ADDRESS_SIZE_BYTES)
            /\ gasRefund' = gasRefund + 24000
            /\ gasLeft' = gasLeft /\ balances' = balances /\ storage' = storage
            /\ logs' = logs /\ returnValue' = returnValue
            /\ err' = "none"]_vars

\* After a return, the contract destroyed itself in favour of the account
\* at offset 0.
C15_Witness ==
    /\ frame.op = "selfDestruct"
    /\ selfDestruct /\ gasRefund = 24000
    /\ BytesOf(selfDestructAddress, memory) = SubSeq(WordA, 1, ADDRESS_SIZE_BYTES)
    /\ returnValue.bytes = <<1, 2>>
    /\ gasLeft \in InitGas

(* C16: return(offset, length) with length > 0 makes returnValue the length *)
(* bytes at offset; with length = 0 it leaves returnValue as it is; it      *)
(* never changes gasLeft; and no other step changes the bytes returnValue   *)
(* holds, so returnValue is always the buffer of the last return that had   *)
(* length > 0, whatever was written to memory since.                        *)
C16_Return ==
    [][/\ Issues("return") =>
            LET offset == frame'.args[1]
                length == frame'.args[2]
            IN /\ gasLeft' = gasLeft
               /\ length > 0 =>
                    /\ err' = "none"
                    /\ BytesOf(returnValue', memory') = getMemory(memory, offset, length)
               /\ length = 0 => returnValue' = returnValue /\ err' = "none"
       /\ ~Issues("return") =>
            BytesOf(returnValue', memory') = BytesOf(returnValue, memory)]_vars

\* The two bytes returned from offset 0 are kept although the memory at
\* offset 0 has changed since.
C16_Witness ==
    /\ BytesOf(returnValue, memory) = <<1, 2>>
    /\ getMemory(memory, 0, 2) # <<1, 2>>

(* C17: a step that aborts with the out-of-gas error commits no write:      *)
(* storage, logs, returnValue, gasRefund and the module's memory are after  *)
(* it as before it; and when the aborted completion is that of the first    *)
(* operation of the run, they are as they were before that operation was    *)
(* issued, that is as the run started.                                      *)
C17_AbortLeavesState ==
    [][err = "none" /\ err' = "Ran out of gas" =>
            /\ storage' = storage /\ logs' = logs /\ returnValue' = returnValue
            /\ gasRefund' = gasRefund /\ memory' = memory
            /\ (nOps' = 1 /\ pc = "idle") =>
                  /\ storage' = EmptyStorage /\ logs' = <<>>
                  /\ returnValue' = Copied(<<>>) /\ gasRefund' = 0
                  /\ memory' = InitMemory]_vars

(* C18: measured from the entry of a host operation to its end, and over    *)
(* each completion, gasLeft never increases: when a step ends an operation  *)
(* (leaving none in progress), gasLeft is at most what it was when the      *)
(* operation was entered. The credit inside a value-carrying call is not    *)
(* such an end.                                                             *)
C18_GasNonIncreasing ==
    [][pc' = "idle" =>
        gasLeft' <= (IF pc # "idle" THEN frame.entryGas ELSE gasLeft)]_vars

(* C19: gasRefund never decreases, over host operations and completions     *)
(* alike, and a step that credits gasRefund (a storageStore completion that *)
(* clears a slot, selfDestruct) leaves gasLeft as it was.                   *)
C19_RefundMonotone ==
    [][/\ gasRefund' >= gasRefund
       /\ gasRefund' > gasRefund => gasLeft' = gasLeft]_vars

\* Two selfDestruct calls credited, the gas untouched.
C19_Witness ==
    /\ gasRefund = 24000 + 24000
    /\ selfDestruct
    /\ gasLeft \in InitGas /\ err = "none"

(* C20: logs is append-only: every step either leaves logs as it is or is a *)
(* successful log call that appends exactly one entry at the end, so the    *)
(* logs of every earlier state are a prefix of the logs of every later one. *)
C20_LogsAppendOnly ==
    [][\/ logs' = logs
       \/ /\ Issues("log") /\ err' = "none"
          /\ Len(logs') = Len(logs) + 1
          /\ SubSeq(logs', 1, Len(logs)) = logs]_vars

\* Two different entries logged, the older one first.
C20_Witness ==
    /\ Len(logs) = 2
    /\ logs[1].data = <<>> /\ logs[1].topics = <<>>
    /\ logs[2].data = <<1, 2>> /\ Len(logs[2].topics) = 2

\* The 32 bytes a storageStore call was given as value, read back from the
\* hex string it queued.
BytesOfHex(valueHex) == DigitsToBytes(PadLeft(U256_new(valueHex), 2 * U256_SIZE_BYTES))

\* The positions of the queued storageStore calls on the key keyHex.
PendingStores(q, keyHex) ==
    {i \in 1..Len(q) : q[i].op = "storageStore" /\ q[i].keyHex = keyHex}

(* C21: a storageLoad(k) issued while a storageStore(k, v) of a nonzero v   *)
(* is still queued resolves to v, the value of the last such store, so      *)
(* that its completion writes v. The bytes are compared in either byte      *)
(* order.                                                                   *)
C21_LoadSeesPendingStore ==
    [][Issues("storageLoad") /\ err' = "none" =>
        LET pending == PendingStores(opsQueue, Queued.keyHex)
        IN pending # {} =>
            LET e == opsQueue[CHOOSE i \in pending : \A j \in pending : j <= i]
                v == BytesOfHex(e.valueHex)
            IN ~e.valIsZero => Queued.value \in {v, Reverse(v)}]_vars

(* C22: whether a call with a nonzero value succeeds or runs out of gas,    *)
(* and the gasLeft it ends with, are fixed by the gasLeft it was entered    *)
(* with and do not depend on the gas it forwards: past its first debit it   *)
(* succeeds, ending 6740 below, exactly when it was entered with at least   *)
(* 6740, and otherwise aborts 40 below.                                     *)
C22_ForwardedGasIndependence ==
    [][pc = "_call514" =>
        IF frame.entryGas >= 6740
        THEN err' = "none"
        ELSE err' = "Ran out of gas" /\ gasLeft' = frame.entryGas - 40]_vars

(* C23: the completion of a storageStore has the effect it would have had   *)
(* if every earlier store had completed before it was issued, so that the   *)
(* final storage, gasLeft and gasRefund do not depend on when completions   *)
(* run: a nonzero store whose slot is set by the time it completes pays no  *)
(* new-slot cost, and a zero store whose slot is set by then earns the      *)
(* refund and clears the slot.                                              *)
C23_StoreOrderIndependent ==
    [][Completes /\ Head(opsQueue).op = "storageStore" =>
        LET e == Head(opsQueue)
            set == e.keyHex \in DOMAIN storage
        IN /\ (~e.valIsZero /\ set) => gasLeft' = gasLeft /\ err' = "none"
           /\ (e.valIsZero /\ set) =>
                /\ gasRefund' = gasRefund + 15000
                /\ e.keyHex \notin DOMAIN storage']_vars

(* C24: a storageStore of zero at a key that is unset, or whose last stored *)
(* value was zero, does not increase gasRefund when it completes, and the   *)
(* key then reads back as 32 zero bytes. Stated for a store that completes  *)
(* on the slot as it read it at the call.                                   *)
C24_ZeroStoreNoRefund ==
    [][(/\ Completes /\ Head(opsQueue).op = "storageStore"
        /\ Head(opsQueue).valIsZero
        /\ Head(opsQueue).value = StorageGet(storage, Head(opsQueue).keyHex)
        /\ Head(opsQueue).value \in {Undefined, <<0>>}) =>
            /\ gasRefund' = gasRefund
            /\ StorageGet(storage', Head(opsQueue).keyHex) \in {Undefined, <<0>>}]_vars

(* C25: storageStore and storageLoad only read their input buffers: the     *)
(* call leaves the module's memory, the 32 bytes at keyOffset and at        *)
(* valueOffset included, as it was.                                         *)
C25_StorageReadsOnly ==
    [][Issues("storageStore") \/ Issues("storageLoad") =>
        /\ getMemory(memory', frame'.args[1], U256_SIZE_BYTES)
             = getMemory(memory, frame'.args[1], U256_SIZE_BYTES)
        /\ Issues("storageStore") =>
             getMemory(memory', frame'.args[2], U256_SIZE_BYTES)
                = getMemory(memory, frame'.args[2], U256_SIZE_BYTES)]_vars

(* C26: getGasLeft with gasLeft >= 2 is charged exactly 2 and returns       *)
(* halves whose unsigned readings give high * 2^32 + low = gasLeft after    *)
(* the charge, which is also the 64-bit number the module receives; with    *)
(* gasLeft < 2 it fails with the out-of-gas error and charges nothing.      *)
C26_GetGasLeft ==
    [][Issues("getGasLeft") =>
        IF gasLeft < 2
        THEN err' = "Ran out of gas" /\ gasLeft' = gasLeft
        ELSE /\ err' = "none"
             /\ gasLeft' = gasLeft - 2
             /\ ToUint32(frame'.high) * Two32 + (frame'.low % Two32) = gasLeft'
             /\ frame'.ret = gasLeft']_vars

\* The gas left was returned with a low half that crossed the boundary as a
\* negative number.
C26_Witness ==
    /\ frame.op = "getGasLeft" /\ err = "none"
    /\ frame.low < 0 /\ frame.high # 0
    /\ frame.ret = gasLeft

(* C27: the beneficiary selfDestruct recorded stays the 20 bytes that were  *)
(* at addressOffset when it was called: no step other than a selfDestruct   *)
(* call changes the bytes selfDestructAddress holds.                        *)
C27_BeneficiaryKept ==
    [][~Issues("selfDestruct") =>
        BytesOf(selfDestructAddress', memory') = BytesOf(selfDestructAddress, memory)]_vars

====
